---- MODULE Spec2Model ----
(***************************************************************************)
(* Model of scripts/test-firecrawl-sdk.py: the function test_firecrawl,    *)
(* one action per statement, with the two remote calls (scrape_url,        *)
(* crawl_url) returning a response or raising, and standard output as the  *)
(* sequence of printed lines.                                              *)
(***************************************************************************)
EXTENDS Integers, Sequences, FiniteSets, TLC

VARIABLES pc, env, app, scrape_result, crawl_status, first_page, out, e,
          scrapeCalls, crawlCalls

vars == <<pc, env, app, scrape_result, crawl_status, first_page, out, e,
          scrapeCalls, crawlCalls>>

(***************************************************************************)
(* Bounds of the model.                                                    *)
(***************************************************************************)
MaxLen == 501
MaxPages == 2

(***************************************************************************)
(* Python values.  Text is a sequence of one-character strings (messages   *)
(* are sequences of one chunk).  Every scalar has the same three fields so *)
(* that any two can be compared.                                           *)
(***************************************************************************)
Scalar(kind, num, text) == [k |-> kind, n |-> num, s |-> text]
None == Scalar("none", 0, <<>>)
Absent == Scalar("absent", 0, <<>>)
NoArg == Scalar("noarg", 0, <<>>)
Num(i) == Scalar("int", i, <<>>)
Str(t) == Scalar("str", 0, t)
Raised(msg) == Scalar("exc", 0, msg)

Chars == <<"a", "b", "c", "d", "e", "f", "g">>
MkStr(L) == [i \in 1..L |-> Chars[(i % 7) + 1]]

Min(a, b) == IF a < b THEN a ELSE b

\* s[:n]
SliceOffByOne(s, n) == SubSeq(s, 1, Min(n - 1, Len(s)))
Slice(s, n) == SubSeq(s, 1, Min(n, Len(s)))

\* d.get(key, default), given the value v stored under key (Absent: no key)
GetNoDefault(v, default) == IF v.k = "absent" THEN None ELSE v
GetNullAsMissing(v, default) == IF v.k \in {"absent", "none"} THEN default ELSE v
Get(v, default) == IF v.k = "absent" THEN default ELSE v

\* a metadata sub-record: a dict with optional title and sourceURL, or null
Dict(t, u) == [k |-> "dict", title |-> t, sourceURL |-> u]
EmptyDict == Dict(Absent, Absent)
NullDict == [k |-> "none", title |-> Absent, sourceURL |-> Absent]
AbsentDict == [k |-> "absent", title |-> Absent, sourceURL |-> Absent]

\* a page record (scrape response, or an element of the crawl data list)
Page(kind, m, md) == [k |-> kind, metadata |-> m, markdown |-> md]
Unbound == Page("unbound", AbsentDict, Absent)
NullPage == Page("none", AbsentDict, Absent)

\* the data field of a crawl response
List(items) == [k |-> "list", items |-> items]
NullList == [k |-> "none", items |-> <<>>]
AbsentList == [k |-> "absent", items |-> <<>>]

Crawl(kind, t, c, u, d) ==
    [k |-> kind, total |-> t, completed |-> c, creditsUsed |-> u, data |-> d]
UnboundCrawl == Crawl("unbound", Absent, Absent, Absent, AbsentList)

(***************************************************************************)
(* Messages of the failures Python raises on a null value.                 *)
(***************************************************************************)
NoGetMsg == <<"'NoneType' object has no attribute 'get'">>
NoLenMsg == <<"object of type 'NoneType' has no len()">>
NoSliceMsg == <<"'NoneType' object is not subscriptable">>

(***************************************************************************)
(* Inputs: the environment, and what the remote service may answer.        *)
(***************************************************************************)
Credentials == {Str(<<"fc-env-1">>), Str(<<"fc-env-2">>)}
LiteralKey == Str(<<"fc-6a65...fa11">>)
RemoteFailures == {<<"Unauthorized">>, <<"Connection timed out">>}

Lens == {L \in 0..MaxLen : L \in {0, 199, 200, 201, 500} \/ L = MaxLen}
Markdowns == {Absent, None} \cup {Str(MkStr(L)) : L \in Lens}

Home == Str(<<"H", "o", "m", "e">>)
SiteURL == Str(<<"https://concreit.com">>)

ScrapeMetas == {AbsentDict, NullDict}
               \cup {Dict(t, SiteURL) : t \in {Absent, None, Home}}
ScrapeResponses == {Page("dict", m, md) : m \in ScrapeMetas, md \in Markdowns}

PageMetas == {AbsentDict, NullDict}
             \cup {Dict(t, u) : t \in {Absent, Home}, u \in {Absent, SiteURL}}
FirstPages == {NullPage} \cup {Page("dict", m, md) : m \in PageMetas, md \in Markdowns}
OtherPage(i) == Page("dict", Dict(Str(<<"About", ToString(i)>>),
                                  Str(<<"https://concreit.com/about", ToString(i)>>)),
                     Str(<<"x">>))
DataLists == {<<p>> \o [i \in 1..(n - 1) |-> OtherPage(i)] :
                  p \in FirstPages, n \in 1..MaxPages}
Datas == {AbsentList, NullList, List(<<>>)} \cup {List(l) : l \in DataLists}
CrawlResponses == {Crawl("dict", t, c, u, d) :
                      t \in {Absent, Num(10)}, c \in {Absent, Num(9)},
                      u \in {Absent, Num(5)}, d \in Datas}

(***************************************************************************)
(* The expressions of the print statements.  Each yields the value printed *)
(* or Raised(msg) when evaluating it raises.                               *)
(***************************************************************************)
\* r.get('metadata', {}).get(key): v is the value under key in the metadata
MetaField(r, key) ==
    LET m == Get(r.metadata, EmptyDict)
    IN  IF m.k # "dict" THEN Raised(NoGetMsg) ELSE Get(m[key], None)

\* first_page.get('metadata', {}).get(key), first_page possibly null
PageField(r, key) ==
    IF r.k # "dict" THEN Raised(NoGetMsg) ELSE MetaField(r, key)

\* len(r.get('markdown', ''))
ContentLength(r) ==
    LET md == Get(r.markdown, Str(<<>>))
    IN  IF md.k # "str" THEN Raised(NoLenMsg) ELSE Num(Len(md.s))

\* r.get('markdown', '')[:n]
Preview(r, n) ==
    LET md == Get(r.markdown, Str(<<>>))
    IN  IF md.k # "str" THEN Raised(NoSliceMsg) ELSE Str(Slice(md.s, n))

PagePreview(r, n) ==
    IF r.k # "dict" THEN Raised(NoGetMsg) ELSE Preview(r, n)

ScrapePreviewLen == 500
CrawlPreviewLen == 200

\* truth value of crawl_status.get('data')
TruthyAnyList(d) == d.k = "list"
Truthy(d) == d.k = "list" /\ Len(d.items) # 0

\* crawl_status['data'][0]
LastItem(d) == d.items[Len(d.items)]
FirstItem(d) == d.items[1]

\* the api_key argument of FirecrawlApp(...)
ApiKeyArg(environment) == LiteralKey

(***************************************************************************)
(* Standard output.                                                        *)
(***************************************************************************)
Line(label, v) == [label |-> label, val |-> v]
Blank == Line("", NoArg)
ErrorLine(msg) == Line("Error:", Str(msg))

\* an exception raised inside the try block reaches the except clause
RaiseEscapes(msg) ==
    /\ pc' = "raised"
    /\ e' = msg
    /\ out' = out
Raise(msg) ==
    /\ pc' = "L50"
    /\ e' = msg
    /\ out' = out

\* print(label, v) where evaluating v may raise; nl: the label starts with \n
PrintValue(label, v, next) ==
    IF v.k = "exc"
    THEN Raise(v.s)
    ELSE /\ out' = Append(out, Line(label, v))
         /\ pc' = next
         /\ e' = e

\* print(text), text starting with a newline or not
PrintText(lead, text, next) ==
    /\ out' = out \o (IF lead THEN <<Blank>> ELSE <<>>) \o <<Line(text, NoArg)>>
    /\ pc' = next
    /\ e' = e

(***************************************************************************)
(* Init: the module has been imported (load_dotenv has run) and            *)
(* test_firecrawl is about to execute its first statement.                 *)
(***************************************************************************)
Init ==
    /\ pc = "L11"
    /\ env \in Credentials
    /\ app = Absent
    /\ scrape_result = Unbound
    /\ crawl_status = UnboundCrawl
    /\ first_page = Unbound
    /\ out = <<>>
    /\ e = <<>>
    /\ scrapeCalls = 0
    /\ crawlCalls = 0

Locals == <<env, app, scrape_result, crawl_status, first_page>>
Calls == <<scrapeCalls, crawlCalls>>

\* line 11
Construct ==
    /\ pc = "L11"
    /\ app' = ApiKeyArg(env)
    /\ pc' = "L14"
    /\ UNCHANGED <<env, scrape_result, crawl_status, first_page, out, e, Calls>>

ConstructRaise ==
    /\ pc = "L11"
    /\ \E msg \in RemoteFailures : Raise(msg)
    /\ UNCHANGED <<Locals, Calls>>

\* line 14
PrintScraping ==
    /\ pc = "L14"
    /\ PrintText(FALSE, "Scraping concreit.com...", "L15")
    /\ UNCHANGED <<Locals, Calls>>

\* lines 15-18
ScrapeReturn ==
    /\ pc = "L15"
    /\ scrapeCalls' = scrapeCalls + 1
    /\ \E r \in ScrapeResponses : scrape_result' = r
    /\ pc' = "L20"
    /\ UNCHANGED <<env, app, crawl_status, first_page, out, e, crawlCalls>>

ScrapeRaiseThenCrawl ==
    /\ pc = "L15"
    /\ scrapeCalls' = scrapeCalls + 1
    /\ \E msg \in RemoteFailures : e' = msg
    /\ pc' = "L27"
    /\ UNCHANGED <<Locals, crawlCalls, out>>
ScrapeRaise ==
    /\ pc = "L15"
    /\ scrapeCalls' = scrapeCalls + 1
    /\ \E msg \in RemoteFailures : Raise(msg)
    /\ UNCHANGED <<Locals, crawlCalls>>

\* line 20
PrintScrapeHeader ==
    /\ pc = "L20"
    /\ PrintText(TRUE, "Scrape Results:", "L21")
    /\ UNCHANGED <<Locals, Calls>>

\* line 21
PrintScrapeTitle ==
    /\ pc = "L21"
    /\ PrintValue("Title:", MetaField(scrape_result, "title"), "L22")
    /\ UNCHANGED <<Locals, Calls>>

\* line 22
PrintContentLength ==
    /\ pc = "L22"
    /\ PrintValue("Content Length:", ContentLength(scrape_result), "L23")
    /\ UNCHANGED <<Locals, Calls>>

\* line 23
PrintPreviewHeader ==
    /\ pc = "L23"
    /\ PrintText(TRUE, "First 500 chars of markdown:", "L24")
    /\ UNCHANGED <<Locals, Calls>>

\* line 24
PrintPreview ==
    /\ pc = "L24"
    /\ PrintValue("", Preview(scrape_result, ScrapePreviewLen), "L27")
    /\ UNCHANGED <<Locals, Calls>>

\* line 27
PrintStartingCrawl ==
    /\ pc = "L27"
    /\ PrintText(TRUE, "Starting crawl of concreit.com...", "L28")
    /\ UNCHANGED <<Locals, Calls>>

\* lines 28-35
CrawlReturn ==
    /\ pc = "L28"
    /\ crawlCalls' = crawlCalls + 1
    /\ \E r \in CrawlResponses : crawl_status' = r
    /\ pc' = "L37"
    /\ UNCHANGED <<env, app, scrape_result, first_page, out, e, scrapeCalls>>

CrawlRaise ==
    /\ pc = "L28"
    /\ crawlCalls' = crawlCalls + 1
    /\ \E msg \in RemoteFailures : Raise(msg)
    /\ UNCHANGED <<Locals, scrapeCalls>>

\* line 37
PrintCrawlHeader ==
    /\ pc = "L37"
    /\ PrintText(TRUE, "Crawl Results:", "L38")
    /\ UNCHANGED <<Locals, Calls>>

\* line 38
PrintTotal ==
    /\ pc = "L38"
    /\ PrintValue("Total Pages:", Get(crawl_status.total, None), "L39")
    /\ UNCHANGED <<Locals, Calls>>

\* line 39
PrintCompleted ==
    /\ pc = "L39"
    /\ PrintValue("Completed Pages:", Get(crawl_status.completed, None), "L40")
    /\ UNCHANGED <<Locals, Calls>>

\* line 40
PrintCredits ==
    /\ pc = "L40"
    /\ PrintValue("Credits Used:", Get(crawl_status.creditsUsed, None), "L42")
    /\ UNCHANGED <<Locals, Calls>>

\* line 42
TestData ==
    /\ pc = "L42"
    /\ pc' = IF Truthy(Get(crawl_status.data, NullList)) THEN "L43" ELSE "done"
    /\ UNCHANGED <<Locals, Calls, out, e>>

\* line 43
PrintFirstHeader ==
    /\ pc = "L43"
    /\ PrintText(TRUE, "First page content:", "L44")
    /\ UNCHANGED <<Locals, Calls>>

\* line 44
ReadFirstPage ==
    /\ pc = "L44"
    /\ first_page' = FirstItem(crawl_status.data)
    /\ pc' = "L45"
    /\ UNCHANGED <<env, app, scrape_result, crawl_status, out, e, Calls>>

\* line 45
PrintPageURL ==
    /\ pc = "L45"
    /\ PrintValue("URL:", PageField(first_page, "sourceURL"), "L46")
    /\ UNCHANGED <<Locals, Calls>>

\* line 46
PrintPageTitle ==
    /\ pc = "L46"
    /\ PrintValue("Title:", PageField(first_page, "title"), "L47")
    /\ UNCHANGED <<Locals, Calls>>

\* line 47
PrintPagePreview ==
    /\ pc = "L47"
    /\ PrintValue("Content Preview:", PagePreview(first_page, CrawlPreviewLen), "done")
    /\ UNCHANGED <<Locals, Calls>>

\* lines 49-50
HandleErrorDiscardOutput ==
    /\ pc = "L50"
    /\ out' = <<ErrorLine(e)>>
    /\ pc' = "done"
    /\ UNCHANGED <<Locals, Calls, e>>
HandleErrorRetry ==
    /\ pc = "L50"
    /\ out' = Append(out, ErrorLine(e))
    /\ pc' = IF scrapeCalls + crawlCalls < 2 THEN "L14" ELSE "done"
    /\ UNCHANGED <<Locals, Calls, e>>
HandleError ==
    /\ pc = "L50"
    /\ out' = Append(out, ErrorLine(e))
    /\ pc' = "done"
    /\ UNCHANGED <<Locals, Calls, e>>

Next ==
    \/ Construct
    \/ ConstructRaise
    \/ PrintScraping
    \/ ScrapeReturn
    \/ ScrapeRaise
    \/ PrintScrapeHeader
    \/ PrintScrapeTitle
    \/ PrintContentLength
    \/ PrintPreviewHeader
    \/ PrintPreview
    \/ PrintStartingCrawl
    \/ CrawlReturn
    \/ CrawlRaise
    \/ PrintCrawlHeader
    \/ PrintTotal
    \/ PrintCompleted
    \/ PrintCredits
    \/ TestData
    \/ PrintFirstHeader
    \/ ReadFirstPage
    \/ PrintPageURL
    \/ PrintPageTitle
    \/ PrintPagePreview
    \/ HandleError

Spec == Init /\ [][Next]_vars

\* every statement and every remote call eventually completes
FairSpec == Spec /\ WF_vars(Next)

(***************************************************************************)
(* Vocabulary of the properties.                                           *)
(***************************************************************************)
LinesWith(label) == SelectSeq(out, LAMBDA l : l.label = label)
CountLabel(label) == Len(LinesWith(label))
HasLabel(label) == CountLabel(label) > 0
Prefix(s, n) == [i \in 1..Min(Len(s), n) |-> s[i]]
IsPrefix(s, t) == Len(s) <= Len(t) /\ SubSeq(t, 1, Len(s)) = s

ScrapeResultLabels == {"Scrape Results:", "Title:", "Content Length:",
                       "First 500 chars of markdown:"}
CrawlResultLabels == {"Crawl Results:", "Total Pages:", "Completed Pages:",
                      "Credits Used:", "First page content:", "URL:",
                      "Content Preview:"}

\* the remote call was issued and raised instead of returning
ScrapeFailed == scrapeCalls = 1 /\ scrape_result.k = "unbound"
CrawlFailed == crawlCalls = 1 /\ crawl_status.k = "unbound"

\* the scrape returned and every line of its report has been printed
ScrapeReported ==
    /\ scrape_result.k = "dict"
    /\ \A l \in ScrapeResultLabels : HasLabel(l)
    /\ \E i \in DOMAIN out : out[i].label = "" /\ out[i].val.k = "str"

OneErrorLineLast ==
    /\ CountLabel("Error:") = 1
    /\ out[Len(out)] = ErrorLine(e)

TypeOK ==
    /\ pc \in {"L11", "L14", "L15", "L20", "L21", "L22", "L23", "L24", "L27",
               "L28", "L37", "L38", "L39", "L40", "L42", "L43", "L44", "L45",
               "L46", "L47", "L50", "done"}
    /\ scrapeCalls \in 0..1
    /\ crawlCalls \in 0..1

(***************************************************************************)
(* C1: if the scrape call or the crawl call raises, exactly one "Error:"   *)
(* line is printed and no later step executes: after a scrape failure the  *)
(* crawl is never issued and no scrape or crawl result line is printed,    *)
(* after a crawl failure no crawl result line is printed.                  *)
(***************************************************************************)
C1_FailureAborts ==
    (ScrapeFailed \/ CrawlFailed) =>
        /\ pc \in {"L50", "done"}
        /\ pc = "L50" => CountLabel("Error:") = 0
        /\ pc = "done" => OneErrorLineLast
        /\ \A l \in CrawlResultLabels : ~HasLabel(l)
        /\ ScrapeFailed =>
              /\ crawlCalls = 0
              /\ \A l \in ScrapeResultLabels : ~HasLabel(l)
              /\ pc = "done" =>
                    out = <<Line("Scraping concreit.com...", NoArg), ErrorLine(e)>>

C1_Witness ==
    /\ pc = "done"
    /\ ScrapeFailed
    /\ CountLabel("Error:") = 1

(***************************************************************************)
(* C2: the api key the client is constructed with is the credential the    *)
(* environment supplies.                                                   *)
(***************************************************************************)
C2_KeyFromEnvironment == app.k # "absent" => app = env

(***************************************************************************)
(* C3: the scrape call and the crawl call are each issued at most once,    *)
(* and the crawl is issued only after the scrape returned and its results  *)
(* were printed.                                                           *)
(***************************************************************************)
C3_Sequenced ==
    /\ scrapeCalls <= 1
    /\ crawlCalls <= 1
    /\ (pc = "L28" \/ crawlCalls > 0) => (scrapeCalls = 1 /\ ScrapeReported)

C3_Witness ==
    /\ pc = "done"
    /\ scrapeCalls = 1
    /\ crawlCalls = 1
    /\ crawl_status.k = "dict"

(***************************************************************************)
(* Field presence in a response.                                           *)
(***************************************************************************)
MissingTitle(r) ==
    \/ r.metadata.k = "absent"
    \/ r.metadata.k = "dict" /\ r.metadata.title.k = "absent"
MissingMarkdown(r) == r.markdown.k = "absent"
NullField(r) == r.metadata.k = "none" \/ r.markdown.k = "none"

\* the scrape report ended without a failure: the crawl call is reached
ScrapeReportPassed == crawlCalls = 0 => pc \notin {"L50", "done"}
ScrapeReportDone == pc = "L28" \/ crawlCalls = 1
ScrapePreviewLines == SelectSeq(out, LAMBDA l : l.label = "" /\ l.val.k = "str")

ScrapeDefaultsPrinted ==
    ScrapeReportDone =>
        /\ MissingTitle(scrape_result) =>
              LinesWith("Title:")[1].val = None
        /\ MissingMarkdown(scrape_result) =>
              /\ LinesWith("Content Length:")[1].val = Num(0)
              /\ ScrapePreviewLines[1].val = Str(<<>>)

(***************************************************************************)
(* C4 as stated: for every scrape response missing metadata, the title in  *)
(* metadata, or markdown, the scrape report raises no failure, prints the  *)
(* unset title, length 0 and the empty preview, and the run goes on to the *)
(* crawl call.                                                             *)
(***************************************************************************)
C4_Original ==
    (scrape_result.k = "dict"
        /\ (MissingTitle(scrape_result) \/ MissingMarkdown(scrape_result))) =>
        /\ ScrapeReportPassed
        /\ ScrapeDefaultsPrinted

(***************************************************************************)
(* C4 amended: the same, for the scrape responses in which neither         *)
(* metadata nor markdown is present with a null value.                     *)
(***************************************************************************)
C4_MissingFieldsDefault ==
    (scrape_result.k = "dict"
        /\ (MissingTitle(scrape_result) \/ MissingMarkdown(scrape_result))
        /\ ~NullField(scrape_result)) =>
        /\ ScrapeReportPassed
        /\ ScrapeDefaultsPrinted

C4_Witness ==
    /\ crawlCalls = 1
    /\ scrape_result.k = "dict"
    /\ scrape_result.metadata.k = "absent"
    /\ MissingMarkdown(scrape_result)
    /\ LinesWith("Content Length:")[1].val = Num(0)

(***************************************************************************)
(* C5: for a markdown string of length L the scrape step prints L as the   *)
(* content length and the first min(L, 500) characters as the preview; the *)
(* preview of the first crawled page is its first min(L, 200) characters.  *)
(***************************************************************************)
C5_Previews ==
    /\ (ScrapeReportDone /\ scrape_result.markdown.k = "str") =>
          /\ LinesWith("Content Length:")[1].val = Num(Len(scrape_result.markdown.s))
          /\ Len(ScrapePreviewLines) = 1
          /\ ScrapePreviewLines[1].val = Str(Prefix(scrape_result.markdown.s, 500))
          /\ Len(ScrapePreviewLines[1].val.s) = Min(Len(scrape_result.markdown.s), 500)
    /\ HasLabel("Content Preview:") =>
          /\ first_page.markdown.k \in {"str", "absent"}
          /\ first_page.markdown.k = "str" =>
                /\ LinesWith("Content Preview:")[1].val =
                       Str(Prefix(first_page.markdown.s, 200))
                /\ Len(LinesWith("Content Preview:")[1].val.s) =
                       Min(Len(first_page.markdown.s), 200)
    /\ (pc = "done" /\ first_page.k = "dict" /\ ~NullField(first_page)) =>
          CountLabel("Content Preview:") = 1

C5_Witness ==
    /\ pc = "done"
    /\ Len(scrape_result.markdown.s) > 500
    /\ Len(first_page.markdown.s) > 200
    /\ Len(ScrapePreviewLines[1].val.s) = 500
    /\ HasLabel("Content Preview:")
    /\ Len(LinesWith("Content Preview:")[1].val.s) = 200

(***************************************************************************)
(* C6: after a successful crawl call the "First page content" section is   *)
(* printed iff the result holds a non-empty page list; without one, no     *)
(* failure is raised, no "Error:" line is printed and the three counters   *)
(* are still printed.                                                      *)
(***************************************************************************)
NonEmptyData(c) == c.data.k = "list" /\ c.data.items # <<>>
CountersPrinted ==
    /\ CountLabel("Total Pages:") = 1
    /\ CountLabel("Completed Pages:") = 1
    /\ CountLabel("Credits Used:") = 1

C6_FirstPageSection ==
    crawl_status.k = "dict" =>
        /\ ~NonEmptyData(crawl_status) =>
              /\ ~HasLabel("First page content:")
              /\ pc # "L50"
              /\ e = <<>>
              /\ ~HasLabel("Error:")
              /\ pc = "done" => CountersPrinted
        /\ (NonEmptyData(crawl_status) /\ pc = "done") =>
              CountLabel("First page content:") = 1

C6_Witness ==
    /\ pc = "done"
    /\ crawl_status.k = "dict"
    /\ crawl_status.data = List(<<>>)
    /\ CountersPrinted

(***************************************************************************)
(* The crawl report a result with a non-empty page list should produce,    *)
(* computed from the result itself.                                        *)
(***************************************************************************)
OrNone(v) == IF v.k = "absent" THEN None ELSE v
MetaOrNone(m, key) == IF m.k = "dict" THEN OrNone(m[key]) ELSE None
CrawlReportOf(c) ==
    <<Blank,
      Line("Crawl Results:", NoArg),
      Line("Total Pages:", OrNone(c.total)),
      Line("Completed Pages:", OrNone(c.completed)),
      Line("Credits Used:", OrNone(c.creditsUsed)),
      Blank,
      Line("First page content:", NoArg),
      Line("URL:", MetaOrNone(c.data.items[1].metadata, "sourceURL")),
      Line("Title:", MetaOrNone(c.data.items[1].metadata, "title"))>>

\* the lines printed since the crawl call returned
SinceCrawl == SubSeq(out, 11, Len(out))

CrawlReportPrinted ==
    /\ IsPrefix(CrawlReportOf(crawl_status), SinceCrawl)
    /\ CountLabel("URL:") = 1
    /\ CountLabel("Title:") = 2

(***************************************************************************)
(* C7 as stated: for every crawl result with a non-empty page list the run *)
(* prints total, completed and creditsUsed (unset when absent) followed by *)
(* the source URL and title of the page at position 0 and of no other      *)
(* page, each defaulting independently.                                    *)
(***************************************************************************)
C7_Original ==
    (pc = "done" /\ crawl_status.k = "dict" /\ NonEmptyData(crawl_status)) =>
        CrawlReportPrinted

(***************************************************************************)
(* C7 amended: the same, for the crawl results whose first page record is  *)
(* a record whose metadata is absent or itself a record (not null).        *)
(***************************************************************************)
WellFormedFirst(c) ==
    /\ c.data.items[1].k = "dict"
    /\ c.data.items[1].metadata.k # "none"

C7_CrawlReport ==
    (pc = "done" /\ crawl_status.k = "dict" /\ NonEmptyData(crawl_status)
        /\ WellFormedFirst(crawl_status)) =>
        CrawlReportPrinted

C7_Witness ==
    /\ pc = "done"
    /\ crawl_status.k = "dict"
    /\ Len(crawl_status.data.items) > 1
    /\ crawl_status.total = Num(10)
    /\ crawl_status.completed = Absent
    /\ CountLabel("URL:") = 1
    /\ CountLabel("Title:") = 2
    /\ LinesWith("URL:")[1].val = SiteURL
    /\ LinesWith("Title:")[2].val = None

(***************************************************************************)
(* C8: every run eventually ends by normal return, and no failure leaves   *)
(* the function, whether the remote calls succeed or fail.                 *)
(***************************************************************************)
C8_NormalTermination == [](pc # "raised") /\ <>(pc = "done")

C8_Witness ==
    /\ pc = "done"
    /\ CrawlFailed
    /\ e \in RemoteFailures

(***************************************************************************)
(* C9: output is append-only; the "Error:" line is appended after the      *)
(* lines already printed, which stay unchanged, and nothing is printed     *)
(* after an "Error:" line.                                                 *)
(***************************************************************************)
C9_AppendOnly ==
    [][/\ IsPrefix(out, out')
       /\ HasLabel("Error:") => out' = out
       /\ pc = "L50" => out' = Append(out, ErrorLine(e))]_vars

C9_Witness ==
    /\ pc = "done"
    /\ CrawlFailed
    /\ ScrapeReported
    /\ Len(out) = 11
    /\ out[11] = ErrorLine(e)

(***************************************************************************)
(* C10: a field present with a null value is not defaulted.  Null metadata *)
(* or markdown in the scrape response fails the scrape report: one         *)
(* "Error:" line, and the crawl call is never issued.  Null metadata or    *)
(* markdown in the first crawled page gives an "Error:" line after the     *)
(* three counter lines.                                                    *)
(***************************************************************************)
C10_NullNotDefaulted ==
    /\ (scrape_result.k = "dict" /\ NullField(scrape_result)) =>
          /\ pc \in {"L20", "L21", "L22", "L50", "done"}
          /\ crawlCalls = 0
          /\ pc = "done" =>
                /\ OneErrorLineLast
                /\ e \in {NoGetMsg, NoLenMsg}
    /\ (pc = "done" /\ crawl_status.k = "dict" /\ NonEmptyData(crawl_status)
          /\ crawl_status.data.items[1].k = "dict"
          /\ NullField(crawl_status.data.items[1])) =>
          /\ OneErrorLineLast
          /\ e \in {NoGetMsg, NoSliceMsg}
          /\ IsPrefix(SubSeq(CrawlReportOf(crawl_status), 1, 5), SinceCrawl)

C10_Witness ==
    /\ pc = "done"
    /\ crawl_status.k = "dict"
    /\ first_page.k = "dict"
    /\ first_page.markdown.k = "none"
    /\ out[Len(out)] = ErrorLine(NoSliceMsg)

C10_WitnessScrape ==
    /\ pc = "done"
    /\ scrape_result.metadata.k = "none"
    /\ out[Len(out)] = ErrorLine(NoGetMsg)
====
